---- MODULE Spec2Model ----
(***************************************************************************)
(* A model of routing/async_router.cpp: the asynchronous routing           *)
(* dispatcher AsyncRouter, its per-request RouterDelegateProxy, the worker *)
(* thread (ThreadFunc and the worker's CalculateRoute) and the GUI task    *)
(* queue the results are posted to.                                        *)
(*                                                                         *)
(* The public API (SetRouter, CalculateRoute, ClearState, the destructor)  *)
(* is called from the GUI thread, which also runs the posted tasks.  Every *)
(* API call holds m_guard for its whole body and every block the worker    *)
(* runs under m_guard is one step, so m_guard is free between steps.       *)
(*                                                                         *)
(* LockSpec runs the same blocks with the mutexes taken one at a time: a   *)
(* thread that finds a mutex held blocks until it is released.             *)
(***************************************************************************)
EXTENDS Integers, Sequences, FiniteSets, TLC

\* ------------------------------------------------------------------ bounds

\* SetRouter, CalculateRoute and ClearState calls made by the client, in all.
MaxApiCalls == 3
\* Progress reports the engine makes during one computation.
MaxProgress == 1

\* --------------------------------------------------------------- constants

\* An empty shared_ptr / unique_ptr / std::function.
NullPtr == 0

\* RouterResultCode, the cases LogCode switches over.
ResultCodes ==
  { "StartPointNotFound", "EndPointNotFound", "PointsInDifferentMWM",
    "RouteNotFound", "RouteFileNotExist", "NeedMoreMaps", "Cancelled",
    "NoError", "NoCurrentPosition", "InconsistentMWMandRoute",
    "InternalError", "FileTooOld", "IntermediatePointNotFound",
    "TransitRouteNotFoundNoNetwork", "TransitRouteNotFoundTooLongPedestrian",
    "RouteNotFoundRedressRouteError" }

\* The user callbacks a RouterDelegateProxy holds.
AllCallbacks == {"onReady", "onNeedMoreMaps", "onRemoveRoute", "onProgress"}

\* The callbacks a client passes to CalculateRoute: all of them, or none
\* (each is a std::function that may be empty).
CallbackChoices == {AllCallbacks, {}}

\* The (checkpoints, direction, adjustToPrevRoute) the client passes in its
\* n-th submission: every submission differs from the others in each of them
\* but the flag, which alternates.
RequestOf(n) ==
  [checkpoints |-> n, startDirection |-> n, adjustToPrevRoute |-> (n % 2 = 1)]

\* The result codes the engine returns in the model: the three the worker
\* tests for and one of the thirteen others, which it treats alike.
EngineResults == {"NoError", "Cancelled", "NeedMoreMaps", "RouteNotFound"}

\* What GetAbsentCountries drains into |absent|.
AbsentChoices == { <<>>, <<"US_California", "US_Nevada">> }

\* A pool of two threads running ThreadFunc.
WorkerPool == {1, 2}

\* The worker threads the constructor starts: one SimpleThread.
Workers == {1}

\* The GUI thread, which calls the API and runs the posted tasks.
GuiThread == 0

\* The threads that take mutexes.
Threads == {GuiThread} \cup Workers

\* AsyncRouter::m_guard.
DispatcherGuard == [of |-> "AsyncRouter", id |-> 0]

\* RouterDelegateProxy::m_guard of proxy p.
ProxyGuard(p) == [of |-> "RouterDelegateProxy", id |-> p]

\* No mutex.
NoMutex == [of |-> "", id |-> 0]

\* A thread that is in no block that locks: it holds and awaits no mutex.
Unlocked == [block |-> "", held |-> <<>>, wants |-> NoMutex]

\* ------------------------------------------------------------------- state

VARIABLES
  m_threadExit,       \* AsyncRouter::m_threadExit
  m_hasRequest,       \* AsyncRouter::m_hasRequest
  m_clearState,       \* AsyncRouter::m_clearState
  m_router,           \* the installed engine: NullPtr or the engine's number
  m_absentFetcher,    \* the installed fetcher: NullPtr or the engine's number
  m_request,          \* m_checkpoints, m_startDirection, m_adjustToPrevRoute
  m_delegate,         \* the active proxy: NullPtr or an index of proxies
  m_routeCounter,     \* AsyncRouter::m_routeCounter
  m_routingStatisticsCallback, \* TRUE iff a statistics sink was given
  proxies,            \* every RouterDelegateProxy made so far
  worker,             \* per worker thread: its position and its locals
  guiQueue,           \* the tasks posted to Platform::Thread::Gui, in order
  guiLog,             \* the tasks that ran, by whom, and whether the user code ran
  calls,              \* the calls made into the engine and the fetcher, in order
  submitted,          \* what each CalculateRoute submission passed
  engines,            \* number of SetRouter calls made so far
  apiCalls,           \* number of SetRouter, CalculateRoute, ClearState calls so far
  uiPc,               \* the client: "alive", "joining" (in ~AsyncRouter), "destroyed"
  mutexes             \* per thread: the block it is in, the mutexes it holds (in
                      \* the order taken) and the mutex it is blocked on

\* What only the client's calls change.
clientVars == << submitted, engines, apiCalls, uiPc >>

vars ==
  << m_threadExit, m_hasRequest, m_clearState, m_router, m_absentFetcher,
     m_request, m_delegate, m_routeCounter, m_routingStatisticsCallback,
     proxies, worker, guiQueue, guiLog, calls, submitted, engines, apiCalls,
     uiPc, mutexes >>

\* Everything but the mutexes.
programVars ==
  << m_threadExit, m_hasRequest, m_clearState, m_router, m_absentFetcher,
     m_request, m_delegate, m_routeCounter, m_routingStatisticsCallback,
     proxies, worker, guiQueue, guiLog, calls, submitted, engines, apiCalls,
     uiPc >>

dispatcherVars ==
  << m_threadExit, m_hasRequest, m_clearState, m_router, m_absentFetcher,
     m_request, m_delegate, m_routeCounter, m_routingStatisticsCallback >>

\* The request slot before the first submission.
NoRequest ==
  [checkpoints |-> 0, startDirection |-> 0, adjustToPrevRoute |-> FALSE]

\* The locals of the worker's CalculateRoute() before the snapshot.
IdleLocals(pc) ==
  [ pc |-> pc,
    delegate |-> NullPtr,
    request |-> NoRequest,
    absentFetcher |-> NullPtr,
    router |-> NullPtr,
    routeId |-> 0,
    routingStatisticsCallback |-> FALSE,
    code |-> "",
    absent |-> <<>>,
    progress |-> 0 ]

\* ------------------------------------------------------------ GUI tasks

\* A task posted to the GUI thread: the lambda's kind and its captures.
Task(kind, delegate, routeId, code, absent, request, router, sink, progress) ==
  [ kind |-> kind, delegate |-> delegate, routeId |-> routeId, code |-> code,
    absent |-> absent, request |-> request, router |-> router, sink |-> sink,
    progress |-> progress ]

\* [onProgress, progress]() { onProgress(progress); }
ProgressTask(d, progress) ==
  Task("onProgress", d, 0, "", <<>>, NoRequest, NullPtr, FALSE, progress)

\* The lambda calling SendStatistics with a result code.
StatisticsTask(w) ==
  Task("statistics", NullPtr, 0, w.code, <<>>, w.request, w.router,
       w.routingStatisticsCallback, 0)

\* The lambda calling SendStatistics with an exception message.
ExceptionStatisticsTask(w) ==
  Task("exceptionStatistics", NullPtr, 0, "", <<>>, w.request,
       w.router, w.routingStatisticsCallback, 0)

\* [delegate, route, code]() { delegate->OnReady(route, code); }
OnReadyTask(w, code) ==
  Task("onReady", w.delegate, w.routeId, code, <<>>, NoRequest, w.router,
       FALSE, 0)

\* [delegate, routeId, absent]() { delegate->OnNeedMoreMaps(routeId, absent); }
OnNeedMoreMapsTask(w) ==
  Task("onNeedMoreMaps", w.delegate, w.routeId, "", w.absent, NoRequest,
       NullPtr, FALSE, 0)

\* [delegate, code]() { delegate->OnRemoveRoute(code); }
OnRemoveRouteTask(w, code) ==
  Task("onRemoveRoute", w.delegate, 0, code, <<>>, NoRequest, NullPtr,
       FALSE, 0)

TerminalKinds == {"onReady", "onNeedMoreMaps", "onRemoveRoute"}
UserCallbackKinds == TerminalKinds \cup {"onProgress"}
StatisticsKinds == {"statistics", "exceptionStatistics"}

\* The filter without the test of the cancellation flag.
ProxyDeliversUnfiltered(proxy, kind) == kind \in proxy.callbacks

\* RouterDelegateProxy::OnReady / OnNeedMoreMaps / OnRemoveRoute: TRUE iff the
\* user callback is invoked (it was supplied and the proxy is not cancelled).
ProxyDelivers(proxy, kind) ==
  /\ kind \in proxy.callbacks
  /\ ~proxy.cancelled

\* SendStatistics: TRUE iff the statistics sink is invoked.
SendStatistics(task) == task.sink

\* The body of a GUI task: TRUE iff it invokes user code.
TaskInvokes(task, px) ==
  CASE task.kind = "onProgress" -> TRUE
    [] task.kind \in StatisticsKinds -> SendStatistics(task)
    [] OTHER -> ProxyDelivers(px[task.delegate], task.kind)

\* A task that is run at once by the calling (worker) thread.
RunOnCallingThread(st, task, px) ==
  [st EXCEPT !.log = Append(@, [task |-> task, thread |-> "worker",
                                invoked |-> TaskInvokes(task, px)])]

\* Platform::RunTask(Thread::Gui, task) and RunOnGuiThread(task): the task is
\* appended to the GUI thread's queue; st is [queue, log].
RunOnGuiThread(st, task, px) ==
  [st EXCEPT !.queue = Append(@, task)]

\* The record of a task body having run on a thread.
Ran(task, thread, px) ==
  [task |-> task, thread |-> thread, invoked |-> TaskInvokes(task, px)]

\* ----------------------------------------------------------------- Init

Init ==
  /\ m_threadExit = FALSE
  /\ m_hasRequest = FALSE
  /\ m_clearState = FALSE
  /\ m_router = NullPtr
  /\ m_absentFetcher = NullPtr
  /\ m_request = NoRequest
  /\ m_delegate = NullPtr
  /\ m_routeCounter = 0
  /\ m_routingStatisticsCallback \in BOOLEAN
  /\ proxies = <<>>
  /\ worker = [w \in Workers |-> IdleLocals("wait")]
  /\ guiQueue = <<>>
  /\ guiLog = <<>>
  /\ calls = <<>>
  /\ submitted = <<>>
  /\ engines = 0
  /\ apiCalls = 0
  /\ uiPc = "alive"
  /\ mutexes = [t \in Threads |-> Unlocked]

\* ------------------------------------------------------- dispatcher API

\* RouterDelegateProxy::Cancel on proxy d.
Cancel(px, d) == [px EXCEPT ![d].cancelled = TRUE]

\* A reset that drops the delegate without cancelling it.
ResetDelegateWithoutCancel(px, d) == px

\* AsyncRouter::ResetDelegate: the proxies afterwards (m_delegate becomes null).
ResetDelegate(px, d) == IF d # NullPtr THEN Cancel(px, d) ELSE px

\* A call that changes the flags without signalling the condition variable.
NoNotification(wk, wk2) == wk2 = wk

\* m_threadCondVar.notify_one(): one thread blocked in wait, if any, wakes up.
NotifyOne(wk, wk2) ==
  IF \E w \in Workers : wk[w].pc = "blocked"
  THEN \E w \in Workers :
         /\ wk[w].pc = "blocked"
         /\ wk2 = [wk EXCEPT ![w].pc = "wait"]
  ELSE wk2 = wk

\* A SetRouter that installs an engine only when none is installed.
SetRouterKeepsFirstEngine(hasFetcher) ==
  /\ uiPc = "alive"
  /\ apiCalls < MaxApiCalls
  /\ apiCalls' = apiCalls + 1
  /\ engines' = engines + 1
  /\ proxies' = ResetDelegate(proxies, m_delegate)
  /\ m_delegate' = NullPtr
  /\ m_router' = IF m_router = NullPtr THEN engines + 1 ELSE m_router
  /\ m_absentFetcher' = IF m_router # NullPtr THEN m_absentFetcher
                        ELSE IF hasFetcher THEN engines + 1 ELSE NullPtr
  /\ UNCHANGED << m_threadExit, m_hasRequest, m_clearState, m_request,
                  m_routeCounter, m_routingStatisticsCallback, worker,
                  guiQueue, guiLog, calls, submitted, uiPc >>

\* AsyncRouter::SetRouter(router, fetcher)
SetRouter(hasFetcher) ==
  /\ uiPc = "alive"
  /\ apiCalls < MaxApiCalls
  /\ apiCalls' = apiCalls + 1
  /\ engines' = engines + 1
  /\ proxies' = ResetDelegate(proxies, m_delegate)
  /\ m_delegate' = NullPtr
  /\ m_router' = engines + 1
  /\ m_absentFetcher' = IF hasFetcher THEN engines + 1 ELSE NullPtr
  /\ UNCHANGED << m_threadExit, m_hasRequest, m_clearState, m_request,
                  m_routeCounter, m_routingStatisticsCallback, worker,
                  guiQueue, guiLog, calls, submitted, uiPc >>

\* A slot that keeps a request that is still pending.
PendingSlotKeepsFirst(slot, request, hasRequest) ==
  IF hasRequest THEN slot ELSE request

\* m_checkpoints = checkpoints; m_startDirection = direction;
\* m_adjustToPrevRoute = adjustToPrevRoute: the slot is overwritten.
PendingSlot(slot, request, hasRequest) == request

\* AsyncRouter::CalculateRoute(checkpoints, direction, adjustToPrevRoute, callbacks...)
CalculateRoute(request, callbacks) ==
  /\ uiPc = "alive"
  /\ apiCalls < MaxApiCalls
  /\ apiCalls' = apiCalls + 1
  /\ request = RequestOf(Len(submitted) + 1)
  /\ m_request' = PendingSlot(m_request, request, m_hasRequest)
  /\ proxies' = Append(ResetDelegate(proxies, m_delegate),
                       [cancelled |-> FALSE, callbacks |-> callbacks])
  /\ m_delegate' = Len(proxies) + 1
  /\ m_hasRequest' = TRUE
  /\ NotifyOne(worker, worker')
  /\ submitted' = Append(submitted, request)
  /\ UNCHANGED << m_threadExit, m_clearState, m_router, m_absentFetcher,
                  m_routeCounter, m_routingStatisticsCallback, guiQueue,
                  guiLog, calls, engines, uiPc >>

\* AsyncRouter::ClearState()
ClearState ==
  /\ uiPc = "alive"
  /\ apiCalls < MaxApiCalls
  /\ apiCalls' = apiCalls + 1
  /\ m_clearState' = TRUE
  /\ NotifyOne(worker, worker')
  /\ proxies' = ResetDelegate(proxies, m_delegate)
  /\ m_delegate' = NullPtr
  /\ UNCHANGED << m_threadExit, m_hasRequest, m_router, m_absentFetcher,
                  m_request, m_routeCounter, m_routingStatisticsCallback,
                  guiQueue, guiLog, calls, submitted, engines, uiPc >>

\* A destructor that does not signal the condition variable.
DestructorForgetsToNotify(wk, wk2) == wk2 = wk

\* The destructor's m_threadCondVar.notify_one().
DestructorNotifies(wk, wk2) == NotifyOne(wk, wk2)

\* AsyncRouter::~AsyncRouter(), up to the join.
Destroy ==
  /\ uiPc = "alive"
  /\ proxies' = ResetDelegate(proxies, m_delegate)
  /\ m_delegate' = NullPtr
  /\ m_threadExit' = TRUE
  /\ DestructorNotifies(worker, worker')
  /\ uiPc' = "joining"
  /\ UNCHANGED << m_hasRequest, m_clearState, m_router, m_absentFetcher,
                  m_request, m_routeCounter, m_routingStatisticsCallback,
                  guiQueue, guiLog, calls, submitted, engines, apiCalls >>

\* m_thread.join() returns once the worker has left ThreadFunc.
Join ==
  /\ uiPc = "joining"
  /\ \A w \in Workers : worker[w].pc = "exited"
  /\ uiPc' = "destroyed"
  /\ UNCHANGED << dispatcherVars, proxies, worker, guiQueue, guiLog, calls,
                  submitted, engines, apiCalls >>

\* The GUI thread runs the task at the head of its queue (not while it is
\* blocked in the destructor's join).
RunGuiTask ==
  /\ uiPc # "joining"
  /\ guiQueue # <<>>
  /\ guiLog' = Append(guiLog, Ran(Head(guiQueue), "gui", proxies))
  /\ guiQueue' = Tail(guiQueue)
  /\ UNCHANGED << dispatcherVars, proxies, worker, calls, clientVars >>

\* ---------------------------------------------------------- worker thread

\* A call into the engine or the fetcher: what was called, on which engine,
\* for which request (route id, delegate, request data), and what came back.
CallRecord(op, engine, routeId, delegate, request, code, absent) ==
  [op |-> op, engine |-> engine, routeId |-> routeId, delegate |-> delegate,
   request |-> request, code |-> code, absent |-> absent]

\* m_router->ClearState()
ClearStateCall(engine) ==
  CallRecord("ClearState", engine, 0, NullPtr, NoRequest, "", <<>>)

\* The wait predicate of ThreadFunc.
WaitPredicate == m_threadExit \/ m_hasRequest \/ m_clearState

\* ThreadFunc, the block under m_guard: the wait (the thread blocks when the
\* predicate is false), the clear-state handling, the exit and request checks.
ThreadFunc(w) ==
  /\ worker[w].pc = "wait"
  /\ IF ~WaitPredicate
     THEN /\ worker' = [worker EXCEPT ![w].pc = "blocked"]
          /\ UNCHANGED << m_clearState, calls >>
     ELSE /\ IF m_clearState /\ m_router # NullPtr
             THEN /\ calls' = Append(calls, ClearStateCall(m_router))
                  /\ m_clearState' = FALSE
             ELSE UNCHANGED << m_clearState, calls >>
          /\ worker' = [worker EXCEPT ![w].pc =
                          IF m_threadExit THEN "exited"
                          ELSE IF ~m_hasRequest THEN "wait"
                          ELSE "calculate"]
  /\ UNCHANGED << m_threadExit, m_hasRequest, m_router, m_absentFetcher,
                  m_request, m_delegate, m_routeCounter,
                  m_routingStatisticsCallback, proxies, guiQueue, guiLog,
                  clientVars >>

\* A wait on a condition variable may return without a notification; the
\* predicate is then evaluated again.
SpuriousWakeup(w) ==
  /\ worker[w].pc = "blocked"
  /\ worker' = [worker EXCEPT ![w].pc = "wait"]
  /\ UNCHANGED << dispatcherVars, proxies, guiQueue, guiLog, calls, clientVars >>

\* The counter read without the increment.
SameRouteId(counter) == counter

\* routeId = ++m_routeCounter
NextRouteId(counter) == counter + 1

\* The worker's CalculateRoute(), the block under m_guard: the request is
\* taken (m_hasRequest is cleared) and, unless the engine or the delegate is
\* missing, copied into the locals together with the next route id.
Snapshot(w) ==
  /\ worker[w].pc = "calculate"
  /\ m_hasRequest' = FALSE
  /\ IF ~m_hasRequest \/ m_router = NullPtr \/ m_delegate = NullPtr
     THEN /\ worker' = [worker EXCEPT ![w] = IdleLocals("wait")]
          /\ UNCHANGED m_routeCounter
     ELSE /\ m_routeCounter' = NextRouteId(m_routeCounter)
          /\ worker' = [worker EXCEPT ![w] =
               [ IdleLocals("try") EXCEPT
                   !.request = m_request,
                   !.delegate = m_delegate,
                   !.router = m_router,
                   !.absentFetcher = m_absentFetcher,
                   !.routeId = NextRouteId(m_routeCounter),
                   !.routingStatisticsCallback = m_routingStatisticsCallback ]]
  /\ UNCHANGED << m_threadExit, m_clearState, m_router, m_absentFetcher,
                  m_request, m_delegate, m_routingStatisticsCallback, proxies,
                  guiQueue, guiLog, calls, clientVars >>

\* A call into the engine or the fetcher made for the request in locals l.
Call(op, l, code, absent) ==
  CallRecord(op, l.router, l.routeId, l.delegate, l.request, code, absent)

\* The calls the try block makes before the engine computes: GenerateRequest
\* on the fetcher, if there is one, then the engine's CalculateRoute.
TryCalls(l) ==
  (IF l.absentFetcher # NullPtr THEN <<Call("GenerateRequest", l, "", <<>>)>> ELSE <<>>)
    \o <<Call("CalculateRoute", l, "", <<>>)>>

\* The start of the try block: the fetcher is kicked and the engine is entered.
StartCompute(w) ==
  /\ worker[w].pc = "try"
  /\ calls' = calls \o TryCalls(worker[w])
  /\ worker' = [worker EXCEPT ![w].pc = "engine"]
  /\ UNCHANGED << dispatcherVars, proxies, guiQueue, guiLog, clientVars >>

\* RouterDelegateProxy::OnProgress(progress) on proxy d: the GUI state after it.
OnProgress(st, px, d, progress) ==
  IF "onProgress" \notin px[d].callbacks THEN st
  ELSE IF px[d].cancelled THEN st
  ELSE RunOnGuiThread(st, ProgressTask(d, progress), px)

\* The engine reports progress through the delegate during the computation.
EngineProgress(w) ==
  /\ worker[w].pc = "engine"
  /\ worker[w].progress < MaxProgress
  /\ LET st == OnProgress([queue |-> guiQueue, log |-> guiLog], proxies,
                          worker[w].delegate, worker[w].progress + 1)
     IN /\ guiQueue' = st.queue
        /\ guiLog' = st.log
  /\ worker' = [worker EXCEPT ![w].progress = @ + 1]
  /\ UNCHANGED << dispatcherVars, proxies, calls, clientVars >>

\* router->CalculateRoute returns a result code.
EngineReturn(w, code) ==
  /\ worker[w].pc = "engine"
  /\ calls' = Append(calls, Call("Return", worker[w], code, <<>>))
  /\ worker' = [worker EXCEPT ![w].pc = "primary", ![w].code = code]
  /\ UNCHANGED << dispatcherVars, proxies, guiQueue, guiLog, clientVars >>

\* A catch block without its return: the secondary delivery follows.
CatchTasksFallingThrough(l) ==
  << ExceptionStatisticsTask(l), OnReadyTask(l, "InternalError"),
     OnRemoveRouteTask(l, "InternalError") >>

\* The tasks the catch (RootException) block posts, in order.
CatchTasks(l) ==
  << ExceptionStatisticsTask(l), OnReadyTask(l, "InternalError") >>

\* A primary delivery that posts OnReady before the statistics.
PrimaryTasksReadyFirst(l) ==
  (IF l.code = "NoError" THEN << OnReadyTask(l, l.code) >> ELSE <<>>)
    \o << StatisticsTask(l) >>

\* A primary delivery that posts OnReady whatever the result code.
PrimaryTasksReadyForEveryCode(l) ==
  << StatisticsTask(l), OnReadyTask(l, l.code) >>

\* The tasks the primary delivery posts for result |code|, in order.
PrimaryTasks(l) ==
  << StatisticsTask(l) >>
    \o (IF l.code = "NoError" THEN << OnReadyTask(l, l.code) >> ELSE <<>>)

\* A fetch that is made only for a route that was found.
NeedFetchAbsentOnlyForNoError(l) ==
  l.absentFetcher # NullPtr /\ l.code = "NoError"

\* needFetchAbsent, with the test for a fetcher.
NeedFetchAbsent(l) == l.absentFetcher # NullPtr /\ l.code # "Cancelled"

\* An upgrade that does not test the code: absent countries always give
\* NeedMoreMaps.
FinalCodeUpgradesEveryCode(l) ==
  IF l.absent # <<>> THEN "NeedMoreMaps" ELSE l.code

\* The code after the upgrade: NoError with absent countries is NeedMoreMaps.
FinalCode(l) ==
  IF l.absent # <<>> /\ l.code = "NoError" THEN "NeedMoreMaps" ELSE l.code

\* The secondary delivery without the test for new data: a callback for
\* every final code.
SecondaryTasksForEveryCode(l) ==
  IF FinalCode(l) = "NeedMoreMaps"
  THEN << OnNeedMoreMapsTask(l) >>
  ELSE << OnRemoveRouteTask(l, FinalCode(l)) >>

\* The tasks the secondary delivery posts, in order.
SecondaryTasks(l) ==
  IF FinalCode(l) # "NoError"
  THEN IF FinalCode(l) = "NeedMoreMaps"
       THEN << OnNeedMoreMapsTask(l) >>
       ELSE << OnRemoveRouteTask(l, FinalCode(l)) >>
  ELSE <<>>

RECURSIVE PostAll(_, _, _)
\* RunOnGuiThread for each task of a sequence, in order.
PostAll(st, tasks, px) ==
  IF tasks = <<>> THEN st
  ELSE PostAll(RunOnGuiThread(st, Head(tasks), px), Tail(tasks), px)

\* The worker posts |tasks| and goes on at |pc| (its locals die at "wait").
WorkerPosts(w, tasks, pc) ==
  /\ LET st == PostAll([queue |-> guiQueue, log |-> guiLog], tasks, proxies)
     IN /\ guiQueue' = st.queue
        /\ guiLog' = st.log
  /\ worker' = [worker EXCEPT ![w] =
                  IF pc = "wait" THEN IdleLocals("wait") ELSE [@ EXCEPT !.pc = pc]]

\* router->CalculateRoute throws a RootException: the catch block.
EngineThrow(w) ==
  /\ worker[w].pc = "engine"
  /\ calls' = Append(calls, Call("Throw", worker[w], "", <<>>))
  /\ WorkerPosts(w, CatchTasks(worker[w]), "wait")
  /\ UNCHANGED << dispatcherVars, proxies, clientVars >>

\* The statistics are posted and, for NoError, OnReady.
PrimaryDelivery(w) ==
  /\ worker[w].pc = "primary"
  /\ WorkerPosts(w, PrimaryTasks(worker[w]),
                 IF NeedFetchAbsent(worker[w]) THEN "fetch" ELSE "secondary")
  /\ UNCHANGED << dispatcherVars, proxies, calls, clientVars >>

\* absentFetcher->GetAbsentCountries(absent) returns.
GetAbsentCountries(w, absent) ==
  /\ worker[w].pc = "fetch"
  /\ calls' = Append(calls, Call("GetAbsentCountries", worker[w], "", absent))
  /\ worker' = [worker EXCEPT ![w].pc = "secondary", ![w].absent = absent]
  /\ UNCHANGED << dispatcherVars, proxies, guiQueue, guiLog, clientVars >>

\* The upgrade to NeedMoreMaps and the secondary delivery; the worker's
\* CalculateRoute() returns to ThreadFunc.
SecondaryDelivery(w) ==
  /\ worker[w].pc = "secondary"
  /\ WorkerPosts(w, SecondaryTasks(worker[w]), "wait")
  /\ UNCHANGED << dispatcherVars, proxies, calls, clientVars >>

\* ------------------------------------------------------------ specification

\* A block that runs as one step: the mutexes it locks are free before the
\* step and free again after it.
Atomic(A) == A /\ UNCHANGED mutexes

WorkerStep(w) ==
  \/ Atomic(ThreadFunc(w))
  \/ Atomic(Snapshot(w))
  \/ Atomic(StartCompute(w))
  \/ Atomic(EngineProgress(w))
  \/ \E code \in EngineResults : Atomic(EngineReturn(w, code))
  \/ Atomic(EngineThrow(w))
  \/ Atomic(PrimaryDelivery(w))
  \/ \E absent \in AbsentChoices : Atomic(GetAbsentCountries(w, absent))
  \/ Atomic(SecondaryDelivery(w))

Next ==
  \/ \E hasFetcher \in BOOLEAN : Atomic(SetRouter(hasFetcher))
  \/ \E request \in {RequestOf(n) : n \in 1..MaxApiCalls},
          callbacks \in CallbackChoices :
       Atomic(CalculateRoute(request, callbacks))
  \/ Atomic(ClearState)
  \/ Atomic(Destroy)
  \/ Atomic(Join)
  \/ Atomic(RunGuiTask)
  \/ \E w \in Workers : WorkerStep(w)
  \/ \E w \in Workers : Atomic(SpuriousWakeup(w))

Spec == Init /\ [][Next]_vars

\* The worker thread is scheduled, the engine's and the fetcher's calls return
\* (a cooperative engine reports progress a bounded number of times), and the
\* join returns once the worker has left ThreadFunc.
FairSpec ==
  /\ Spec
  /\ \A w \in Workers : WF_vars(WorkerStep(w))
  /\ WF_vars(Atomic(Join))

\* The worker's steps with an engine that may return any RouterResultCode.
AllCodesWorkerStep(w) ==
  \/ Atomic(ThreadFunc(w))
  \/ Atomic(Snapshot(w))
  \/ Atomic(StartCompute(w))
  \/ Atomic(EngineProgress(w))
  \/ \E code \in ResultCodes : Atomic(EngineReturn(w, code))
  \/ Atomic(EngineThrow(w))
  \/ Atomic(PrimaryDelivery(w))
  \/ \E absent \in AbsentChoices : Atomic(GetAbsentCountries(w, absent))
  \/ Atomic(SecondaryDelivery(w))

AllCodesNext ==
  \/ \E hasFetcher \in BOOLEAN : Atomic(SetRouter(hasFetcher))
  \/ \E request \in {RequestOf(n) : n \in 1..MaxApiCalls},
          callbacks \in CallbackChoices :
       Atomic(CalculateRoute(request, callbacks))
  \/ Atomic(ClearState)
  \/ Atomic(Destroy)
  \/ Atomic(Join)
  \/ Atomic(RunGuiTask)
  \/ \E w \in Workers : AllCodesWorkerStep(w)
  \/ \E w \in Workers : Atomic(SpuriousWakeup(w))

\* The program with an engine that returns every value of the result enumeration.
AllCodesSpec == Init /\ [][AllCodesNext]_vars

\* ------------------------------------------------------------ the mutexes

\* The threads that hold mutex m.
Holder(m) ==
  { t \in Threads : \E i \in DOMAIN mutexes[t].held : mutexes[t].held[i] = m }

\* No thread holds mutex m.
Free(m) == Holder(m) = {}

\* The mutexes an API call or the destructor locks, in order: m_guard for the
\* whole body, and inside it, in ResetDelegate's Cancel, the mutex of the
\* active proxy, if there is one.
ApiLocks ==
  << DispatcherGuard >>
    \o (IF m_delegate # NullPtr THEN << ProxyGuard(m_delegate) >> ELSE <<>>)

\* A task body that reads the dispatcher's state under m_guard.
TaskLocksDispatcher(task, px) == << DispatcherGuard >>

\* The mutexes the body of a GUI task locks: OnReady, OnNeedMoreMaps and
\* OnRemoveRoute lock the proxy's mutex to test the cancellation flag, unless
\* the callback is empty; the progress and the statistics tasks lock none.
TaskLocks(task, px) ==
  IF task.kind \in TerminalKinds /\ task.kind \in px[task.delegate].callbacks
  THEN << ProxyGuard(task.delegate) >>
  ELSE <<>>

\* The mutex ThreadFunc and the worker's CalculateRoute() lock for their block.
WorkerLocks == << DispatcherGuard >>

\* An OnProgress that reads the dispatcher's state while it holds the proxy's
\* mutex.
OnProgressLocksThenDispatcher(l) == << ProxyGuard(l.delegate), DispatcherGuard >>

\* The mutex RouterDelegateProxy::OnProgress locks: the proxy's, held while
\* the task is posted.
OnProgressLocks(l) == << ProxyGuard(l.delegate) >>

\* Thread t, entering |block|, locks the next of the mutexes the block needs:
\* it takes the mutex if it is free and blocks on it otherwise.
Lock(t, block, needs) ==
  LET mine == mutexes[t]
  IN /\ mine.wants = NoMutex
     /\ mine.block = (IF mine.held = <<>> THEN "" ELSE block)
     /\ Len(mine.held) < Len(needs)
     /\ mine.held = SubSeq(needs, 1, Len(mine.held))
     /\ LET m == needs[Len(mine.held) + 1]
        IN mutexes' = [mutexes EXCEPT ![t] =
             IF Free(m)
             THEN [block |-> block, held |-> Append(mine.held, m),
                   wants |-> NoMutex]
             ELSE [block |-> block, held |-> mine.held, wants |-> m]]
     /\ UNCHANGED programVars

\* Thread t, blocked on a mutex that has been released, takes it.
Acquire(t) ==
  /\ mutexes[t].wants # NoMutex
  /\ Free(mutexes[t].wants)
  /\ mutexes' = [mutexes EXCEPT ![t].held = Append(@, mutexes[t].wants),
                                ![t].wants = NoMutex]
  /\ UNCHANGED programVars

\* Thread t holds the mutexes |block| needs, runs its body A and unlocks.
Locked(t, block, needs, A) ==
  /\ mutexes[t].wants = NoMutex
  /\ mutexes[t].held = needs
  /\ mutexes[t].block = (IF needs = <<>> THEN "" ELSE block)
  /\ A
  /\ mutexes' = [mutexes EXCEPT ![t] = Unlocked]

\* The worker's steps, with the mutexes.
LockWorkerStep(w) ==
  \/ /\ worker[w].pc = "wait"
     /\ Lock(w, "ThreadFunc", WorkerLocks)
  \/ Locked(w, "ThreadFunc", WorkerLocks, ThreadFunc(w))
  \/ /\ worker[w].pc = "calculate"
     /\ Lock(w, "CalculateRoute", WorkerLocks)
  \/ Locked(w, "CalculateRoute", WorkerLocks, Snapshot(w))
  \/ Locked(w, "", <<>>, StartCompute(w))
  \/ /\ worker[w].pc = "engine"
     /\ worker[w].progress < MaxProgress
     /\ Lock(w, "OnProgress", OnProgressLocks(worker[w]))
  \/ Locked(w, "OnProgress", OnProgressLocks(worker[w]), EngineProgress(w))
  \/ \E code \in EngineResults : Locked(w, "", <<>>, EngineReturn(w, code))
  \/ Locked(w, "", <<>>, EngineThrow(w))
  \/ Locked(w, "", <<>>, PrimaryDelivery(w))
  \/ \E absent \in AbsentChoices :
       Locked(w, "", <<>>, GetAbsentCountries(w, absent))
  \/ Locked(w, "", <<>>, SecondaryDelivery(w))
  \/ Locked(w, "", <<>>, SpuriousWakeup(w))

\* The GUI thread's steps, with the mutexes.
LockGuiStep ==
  \/ /\ uiPc = "alive"
     /\ Lock(GuiThread, "api", ApiLocks)
  \/ \E hasFetcher \in BOOLEAN :
       Locked(GuiThread, "api", ApiLocks, SetRouter(hasFetcher))
  \/ \E request \in {RequestOf(n) : n \in 1..MaxApiCalls},
          callbacks \in CallbackChoices :
       Locked(GuiThread, "api", ApiLocks, CalculateRoute(request, callbacks))
  \/ Locked(GuiThread, "api", ApiLocks, ClearState)
  \/ Locked(GuiThread, "api", ApiLocks, Destroy)
  \/ Locked(GuiThread, "", <<>>, Join)
  \/ /\ uiPc # "joining"
     /\ guiQueue # <<>>
     /\ Lock(GuiThread, "task", TaskLocks(Head(guiQueue), proxies))
  \/ /\ guiQueue # <<>>
     /\ Locked(GuiThread, "task", TaskLocks(Head(guiQueue), proxies),
               RunGuiTask)

LockNext ==
  \/ LockGuiStep
  \/ \E w \in Workers : LockWorkerStep(w)
  \/ \E t \in Threads : Acquire(t)

\* The program with every mutex taken and released by a step of its own.
LockSpec == Init /\ [][LockNext]_vars

\* --------------------------------------------------------------- properties

\* The entries a step adds to the GUI log.
NewlyRan == { guiLog'[i] : i \in (Len(guiLog) + 1)..Len(guiLog') }

\* The calls of kind |op| made for the request of proxy p.
CallsFor(op, p) == SelectSeq(calls, LAMBDA c : c.op = op /\ c.delegate = p)

\* The engine threw while computing the request of proxy p.
Threw(p) == CallsFor("Throw", p) # <<>>

\* The engine returned |code| for the request of proxy p.
Returned(p, code) ==
  \E i \in DOMAIN calls :
    calls[i].op = "Return" /\ calls[i].delegate = p /\ calls[i].code = code

\* The fetcher answered the request of proxy p with a non-empty list.
AbsentFound(p) ==
  \E i \in DOMAIN calls :
    /\ calls[i].op = "GetAbsentCountries"
    /\ calls[i].delegate = p
    /\ calls[i].absent # <<>>

\* The worker has executed the request of proxy p and is done with it, and
\* every GUI task posted for it has run.
Settled(p) ==
  /\ CallsFor("Return", p) \o CallsFor("Throw", p) # <<>>
  /\ \A w \in Workers : worker[w].delegate # p
  /\ \A i \in DOMAIN guiQueue :
       /\ guiQueue[i].delegate # p
       /\ guiQueue[i].kind \in StatisticsKinds
            => guiQueue[i].request # RequestOf(p)

\* The request of proxy p can reach the user: its proxy is not cancelled and
\* all its callbacks were supplied.
Live(p) == ~proxies[p].cancelled /\ proxies[p].callbacks = AllCallbacks

\* The terminal callbacks of proxy p the user has received, in order.
TerminalsDelivered(p) ==
  SelectSeq(guiLog, LAMBDA e : /\ e.task.delegate = p
                               /\ e.task.kind \in TerminalKinds
                               /\ e.invoked)

\* The engine computations started so far, in order.
Executed == SelectSeq(calls, LAMBDA c : c.op = "CalculateRoute")

\* C1: once CalculateRoute for request N+1 has returned, no user callback of
\* request N (progress or terminal) runs on the GUI thread: every user
\* callback a step invokes belongs to the proxy of the latest submission.
C1_NoCallbackOfOlderRequest ==
  [][\A e \in NewlyRan :
       (e.invoked /\ e.task.kind \in UserCallbackKinds)
         => e.task.delegate = Len(proxies)]_vars

\* C2: a terminal callback is never invoked by a GUI task that starts after
\* Cancel was called on its proxy; so no terminal callback of an older request
\* runs once a newer submission has returned, even when it was queued before.
C2_NoTerminalCallbackAfterCancel ==
  [][\A e \in NewlyRan :
       (e.invoked /\ e.task.kind \in TerminalKinds)
         => /\ ~proxies[e.task.delegate].cancelled
            /\ e.task.delegate = Len(proxies)]_vars

\* C2 happens: a terminal task of a request that a later submission replaced
\* has run, its callback was supplied, and the user code was not invoked.
C2_Witness ==
  \E i \in DOMAIN guiLog :
    /\ guiLog[i].task.kind \in TerminalKinds
    /\ guiLog[i].task.delegate < Len(proxies)
    /\ guiLog[i].task.kind \in proxies[guiLog[i].task.delegate].callbacks
    /\ ~guiLog[i].invoked

\* C3 as stated: every executed request whose proxy was not cancelled has
\* received exactly one terminal callback once its tasks have run.
C3_ExactlyOneTerminalCallback ==
  \A p \in DOMAIN proxies :
    (Settled(p) /\ Live(p)) => Len(TerminalsDelivered(p)) = 1

\* C3, amended: every executed request whose proxy was not cancelled has, once
\* its tasks have run, received exactly one terminal callback, except that a
\* NoError result with a non-empty absent list gives two: on-ready, then
\* on-need-more-maps.
C3_OneTerminalCallbackOrReadyThenMaps ==
  \A p \in DOMAIN proxies :
    (Settled(p) /\ Live(p)) =>
      LET kinds == [i \in DOMAIN TerminalsDelivered(p) |->
                      TerminalsDelivered(p)[i].task.kind]
      IN IF Returned(p, "NoError") /\ AbsentFound(p)
         THEN kinds = <<"onReady", "onNeedMoreMaps">>
         ELSE Len(kinds) = 1

\* C3 happens: a request with NoError and absent countries is settled and not
\* cancelled, and another executed request is settled with one callback.
C3_Witness ==
  /\ \E p \in DOMAIN proxies :
       Settled(p) /\ Live(p) /\ Returned(p, "NoError") /\ AbsentFound(p)
  /\ \E p \in DOMAIN proxies :
       /\ CallsFor("Return", p) # <<>>
       /\ ~Returned(p, "NoError")
       /\ Len(TerminalsDelivered(p)) = 1

\* The workers that hold a snapshot whose computation has not started yet.
Snapshotted == { w \in Workers : worker[w].pc = "try" }

\* C4: route ids are strictly increasing and unique: the counter starts at 0,
\* the n-th request the worker executes is tagged n (the counter's previous
\* value + 1), no two executed requests share an id, and the counter is the
\* last id given out.
C4_RouteIdsStrictlyIncreasing ==
  /\ \A i \in DOMAIN Executed : Executed[i].routeId = i
  /\ \A i, j \in DOMAIN Executed :
       i < j => Executed[i].routeId < Executed[j].routeId
  /\ \A w \in Snapshotted : worker[w].routeId = m_routeCounter
  /\ m_routeCounter = Len(Executed) + Cardinality(Snapshotted)

\* C4 happens: two requests were executed.
C4_Witness ==
  /\ Len(Executed) = 2
  /\ Executed[1].routeId = 1
  /\ Executed[2].routeId = 2

\* The engine computations started and not yet returned.
EnginesRunning ==
  Len(Executed)
    - Len(SelectSeq(calls, LAMBDA c : c.op \in {"Return", "Throw"}))

\* C5: at most one engine computation is in progress at any instant.
C5_AtMostOneComputation == EnginesRunning \in {0, 1}

\* C5 happens: a request is submitted while the engine computes another one.
C5_Witness ==
  /\ EnginesRunning = 1
  /\ m_hasRequest
  /\ Len(submitted) = 2

\* C6: submissions are coalesced: a snapshot that finds an engine and a
\* delegate takes the most recent submission (its request data and its
\* delegate) and starts one computation for it; no submission is computed
\* twice, and a submission older than a computed one is never computed later.
C6_OnlyLatestSubmissionSurvives ==
  /\ [](\A i \in DOMAIN Executed :
          /\ Executed[i].request = submitted[Executed[i].delegate]
          /\ \A j \in DOMAIN Executed :
               i < j => Executed[i].delegate < Executed[j].delegate)
  /\ [][\A w \in Workers :
          (worker[w].pc = "calculate" /\ worker'[w].pc = "try")
            => /\ worker'[w].delegate = Len(submitted)
               /\ worker'[w].request = submitted[Len(submitted)]]_vars

\* C6 happens: the worker computes the second submission and the first one
\* was never computed.
C6_Witness ==
  /\ Len(submitted) = 2
  /\ Len(Executed) = 1
  /\ Executed[1].delegate = 2
  /\ Executed[1].request = RequestOf(2)
  /\ m_routeCounter = 1

\* C7: destruction terminates: once the destructor has cancelled the delegate,
\* set the exit flag and signalled, the worker leaves its loop and the join
\* returns, whatever the worker was doing; and once the exit flag is set the
\* worker takes no request any more, so a request pending at exit is not
\* executed.
C7_DestructionTerminates ==
  /\ (uiPc = "joining") ~> (\A w \in Workers : worker[w].pc = "exited")
  /\ (uiPc = "joining") ~> (uiPc = "destroyed")
  /\ [][m_threadExit =>
          /\ m_routeCounter' = m_routeCounter
          /\ \A w \in Workers : worker'[w].pc = "try" => worker[w].pc = "try"]_vars

\* C7 happens: the join has returned while a submitted request was still
\* pending, and it was never executed.
C7_Witness ==
  /\ uiPc = "destroyed"
  /\ m_hasRequest
  /\ \A w \in Workers : worker[w].pc = "exited"
  /\ Len(Executed) < Len(submitted)
  /\ m_router # NullPtr

\* C8: every invocation of a user callback and of the statistics sink is made
\* by the GUI thread running a task of its queue, never by the worker.
C8_UserCodeRunsOnGuiThread ==
  \A i \in DOMAIN guiLog : guiLog[i].invoked => guiLog[i].thread = "gui"

\* C8 happens: the sink, on-progress and a terminal callback were invoked.
C8_Witness ==
  /\ \E i \in DOMAIN guiLog :
       guiLog[i].invoked /\ guiLog[i].task.kind \in StatisticsKinds
  /\ \E i \in DOMAIN guiLog :
       guiLog[i].invoked /\ guiLog[i].task.kind = "onProgress"
  /\ \E i \in DOMAIN guiLog :
       guiLog[i].invoked /\ guiLog[i].task.kind \in TerminalKinds

\* What the GUI thread has observed of the request of proxy p, progress
\* aside: the statistics records and the terminal callbacks, in order.
Observed(p) ==
  LET seen == SelectSeq(guiLog, LAMBDA e :
                /\ e.invoked
                /\ \/ e.task.kind \in TerminalKinds /\ e.task.delegate = p
                   \/ /\ e.task.kind \in StatisticsKinds
                      /\ e.task.request = submitted[p])
  IN [i \in DOMAIN seen |->
        [kind |-> seen[i].task.kind, code |-> seen[i].task.code,
         routeId |-> seen[i].task.routeId, absent |-> seen[i].task.absent]]

\* s is an initial part of t.
IsPrefix(s, t) == Len(s) <= Len(t) /\ \A i \in DOMAIN s : s[i] = t[i]

\* The route id the worker gave the request of proxy p.
RouteIdOf(p) == CallsFor("CalculateRoute", p)[1].routeId

\* The list the fetcher returned for the request of proxy p.
AbsentOf(p) == CallsFor("GetAbsentCountries", p)[1].absent

\* What C9 expects the GUI thread to observe for the request of proxy p.
ReadyThenNeedMoreMaps(p) ==
  << [kind |-> "statistics", code |-> "NoError", routeId |-> 0,
      absent |-> <<>>],
     [kind |-> "onReady", code |-> "NoError", routeId |-> RouteIdOf(p),
      absent |-> <<>>],
     [kind |-> "onNeedMoreMaps", code |-> "", routeId |-> RouteIdOf(p),
      absent |-> AbsentOf(p)] >>

\* C9: for a request that is not cancelled, with the engine returning NoError
\* and the fetcher a non-empty list (and a sink installed), the GUI thread
\* observes the NoError statistics, then on-ready(route, NoError), then
\* on-need-more-maps(routeId, absent) with the id of that route: at any time
\* an initial part of this sequence, and all of it once the tasks have run.
C9_StatisticsThenReadyThenNeedMoreMaps ==
  \A p \in DOMAIN proxies :
    (Live(p) /\ m_routingStatisticsCallback /\ Returned(p, "NoError")
       /\ AbsentFound(p))
    => /\ IsPrefix(Observed(p), ReadyThenNeedMoreMaps(p))
       /\ Settled(p) => Observed(p) = ReadyThenNeedMoreMaps(p)

\* C9 happens: all three were observed for a request that is not cancelled.
C9_Witness ==
  \E p \in DOMAIN proxies :
    /\ Live(p) /\ m_routingStatisticsCallback
    /\ Returned(p, "NoError") /\ AbsentFound(p)
    /\ Settled(p)
    /\ Len(Observed(p)) = 3
    /\ Observed(p)[3].absent # <<>>

\* Every task posted so far, in the order of posting.
Posted == [i \in DOMAIN guiLog |-> guiLog[i].task] \o guiQueue

\* The tasks posted for the request of proxy p, progress aside.
PostedFor(p) ==
  SelectSeq(Posted, LAMBDA t :
    \/ t.kind \in TerminalKinds /\ t.delegate = p
    \/ t.kind \in StatisticsKinds /\ t.request = submitted[p])

\* C10: when the engine throws a root exception, the worker posts the
\* exception statistics and then on-ready with InternalError for the route,
\* posts neither on-remove-route nor on-need-more-maps for that request (nor
\* anything else, then or later), and the throwing step takes it back to the
\* wait with the request dropped.
C10_ExceptionGivesReadyInternalError ==
  /\ [](\A p \in DOMAIN proxies :
          Threw(p) =>
            /\ Len(PostedFor(p)) = 2
            /\ PostedFor(p)[1].kind = "exceptionStatistics"
            /\ PostedFor(p)[2].kind = "onReady"
            /\ PostedFor(p)[2].code = "InternalError"
            /\ PostedFor(p)[2].routeId = RouteIdOf(p)
            /\ \A w \in Workers : worker[w].delegate # p)
  /\ [][\A w \in Workers :
          (/\ worker[w].pc = "engine"
           /\ worker'[w] # worker[w]
           /\ Len(calls') = Len(calls) + 1
           /\ calls'[Len(calls')].op = "Throw")
            => /\ worker'[w].pc = "wait"
               /\ Len(guiQueue') = Len(guiQueue) + 2]_vars

\* C10 happens: the engine threw, both tasks ran and on-ready reached the user
\* with InternalError; the worker waits again.
C10_Witness ==
  \E p \in DOMAIN proxies :
    /\ Threw(p)
    /\ Len(TerminalsDelivered(p)) = 1
    /\ TerminalsDelivered(p)[1].task.code = "InternalError"
    /\ \E i \in DOMAIN guiLog :
         guiLog[i].invoked /\ guiLog[i].task.kind = "exceptionStatistics"
    /\ \A w \in Workers : worker[w].pc = "blocked"

\* The worker has executed the request of proxy p and has left it.
WorkerDone(p) ==
  /\ CallsFor("Return", p) \o CallsFor("Throw", p) # <<>>
  /\ \A w \in Workers : worker[w].delegate # p

\* The tasks of kind |kind| posted for proxy p, run or still queued.
PostedOfKind(kind, p) ==
  SelectSeq(Posted, LAMBDA t : t.kind = kind /\ t.delegate = p)

\* The terminal tasks posted for proxy p, run or still queued.
TerminalsPosted(p) ==
  SelectSeq(Posted, LAMBDA t : t.kind \in TerminalKinds /\ t.delegate = p)

\* The worker holds the engine's result for proxy p and has not posted yet.
BeforePrimary(p) ==
  \E w \in Workers : worker[w].delegate = p /\ worker[w].pc = "primary"

\* C11: OnReady is posted exactly once for a request whose engine returned
\* NoError (in the primary delivery) or threw (in the catch block, with
\* InternalError), and never for a request with any other result code or one
\* that was not executed; when the final code is still NoError, OnReady is
\* the only terminal task posted for the request.
C11_OnReadyExactlyOnceForNoErrorOrException ==
  \A p \in DOMAIN proxies :
    LET ready == PostedOfKind("onReady", p)
    IN /\ Len(ready) <= 1
       /\ Threw(p) =>
            /\ Len(ready) = 1
            /\ ready[1].code = "InternalError"
       /\ (Returned(p, "NoError") /\ ~BeforePrimary(p)) =>
            /\ Len(ready) = 1
            /\ ready[1].code = "NoError"
       /\ (\E code \in ResultCodes \ {"NoError"} : Returned(p, code)) =>
            ready = <<>>
       /\ (CallsFor("Return", p) \o CallsFor("Throw", p) = <<>>) =>
            ready = <<>>
       /\ (Returned(p, "NoError") /\ WorkerDone(p) /\ ~AbsentFound(p)) =>
            TerminalsPosted(p) = ready

\* C11 happens: the worker is done with a request whose engine returned
\* NoError and whose fetcher found nothing (one terminal task, OnReady), and
\* with a request whose engine returned the code InternalError (no OnReady).
C11_Witness ==
  /\ \E p \in DOMAIN proxies :
       /\ Returned(p, "NoError") /\ WorkerDone(p)
       /\ \E i \in DOMAIN calls :
            /\ calls[i].op = "GetAbsentCountries"
            /\ calls[i].delegate = p
            /\ calls[i].absent = <<>>
       /\ Len(TerminalsPosted(p)) = 1
  /\ \E p \in DOMAIN proxies :
       /\ Returned(p, "InternalError") /\ WorkerDone(p)
       /\ PostedOfKind("onReady", p) = <<>>
       /\ Len(TerminalsPosted(p)) = 1

\* The on-need-more-maps tasks posted for proxy p, run or still queued.
NeedMoreMapsPosted(p) == PostedOfKind("onNeedMoreMaps", p)

\* What the worker's |absent| holds for the request of proxy p: the list the
\* fetcher returned, or nothing when the fetcher was not consulted.
FetchedFor(p) ==
  IF CallsFor("GetAbsentCountries", p) = <<>> THEN <<>> ELSE AbsentOf(p)

\* C12 as stated: on-need-more-maps is posted only for a request whose engine
\* result was NoError and whose fetched absent list is non-empty.
C12_NeedMoreMapsOnlyAfterUpgrade ==
  \A p \in DOMAIN proxies :
    NeedMoreMapsPosted(p) # <<>> => (Returned(p, "NoError") /\ AbsentFound(p))

\* C12, amended: on-need-more-maps is posted only when the final code is
\* NeedMoreMaps, that is for a request whose engine result was NoError and
\* whose fetched list is non-empty, or whose engine result was NeedMoreMaps
\* itself; then it is posted once, with the request's route id and the fetched
\* list, and for every other result code and list it is not posted.
C12_NeedMoreMapsOnlyForFinalCodeNeedMoreMaps ==
  \A p \in DOMAIN proxies :
    LET posted == NeedMoreMapsPosted(p)
        final == \/ Returned(p, "NoError") /\ AbsentFound(p)
                 \/ Returned(p, "NeedMoreMaps")
    IN /\ Len(posted) <= 1
       /\ posted # <<>> =>
            /\ final
            /\ posted[1].routeId = RouteIdOf(p)
            /\ posted[1].absent = FetchedFor(p)
       /\ (final /\ WorkerDone(p)) => Len(posted) = 1
       /\ \A i \in DOMAIN guiLog :
            (guiLog[i].task.kind = "onNeedMoreMaps"
               /\ guiLog[i].task.delegate = p /\ guiLog[i].invoked) => final

\* C12 happens: on-need-more-maps reached the user for a request with NoError
\* and absent countries, and the worker is done with a request with another
\* code and absent countries, for which none was posted.
C12_Witness ==
  /\ \E p \in DOMAIN proxies :
       /\ Returned(p, "NoError") /\ AbsentFound(p)
       /\ \E i \in DOMAIN guiLog :
            /\ guiLog[i].task.kind = "onNeedMoreMaps"
            /\ guiLog[i].task.delegate = p
            /\ guiLog[i].invoked
  /\ \E p \in DOMAIN proxies :
       /\ Returned(p, "FileTooOld") /\ AbsentFound(p) /\ WorkerDone(p)
       /\ NeedMoreMapsPosted(p) = <<>>

\* The place in |calls| of the call of kind |op| made for proxy p.
IndexOf(op, p) ==
  CHOOSE i \in DOMAIN calls : calls[i].op = op /\ calls[i].delegate = p

\* The fetcher was kicked with GenerateRequest for the request of proxy p.
Kicked(p) == CallsFor("GenerateRequest", p) # <<>>

\* The fetcher was drained with GetAbsentCountries for the request of proxy p.
Drained(p) == CallsFor("GetAbsentCountries", p) # <<>>

\* The fetcher is kicked right before the engine computes, for a request
\* snapshotted with a fetcher, and only for such a request.
KickedBeforeCompute ==
  /\ \A p \in DOMAIN proxies :
       Kicked(p) =>
         /\ Len(CallsFor("GenerateRequest", p)) = 1
         /\ CallsFor("CalculateRoute", p) # <<>>
         /\ IndexOf("GenerateRequest", p) + 1 = IndexOf("CalculateRoute", p)
  /\ \A w \in Workers :
       worker[w].pc \in {"engine", "primary", "fetch", "secondary"} =>
         (Kicked(worker[w].delegate) <=> worker[w].absentFetcher # NullPtr)

\* C13 as stated: the fetcher is kicked before the computation starts, and
\* once the worker is done with a request it kicked, the fetcher was drained
\* after the computation ended unless the engine returned Cancelled.
C13_EveryKickIsDrainedUnlessCancelled ==
  /\ KickedBeforeCompute
  /\ \A p \in DOMAIN proxies :
       (Kicked(p) /\ WorkerDone(p) /\ ~Returned(p, "Cancelled")) =>
         /\ Drained(p)
         /\ IndexOf("GetAbsentCountries", p) > IndexOf("CalculateRoute", p)

\* C13, amended: the fetcher is kicked before the computation starts; it is
\* drained, once and after the engine returned, for every result code the
\* engine returns except Cancelled, and it is not drained when the engine
\* returns Cancelled or throws a root exception, nor when it was not kicked.
\* Every kick is followed by the drain, a Cancelled result or an exception.
C13_EveryKickIsDrainedUnlessCancelledOrThrown ==
  /\ [](/\ KickedBeforeCompute
        /\ \A p \in DOMAIN proxies :
             /\ (Kicked(p) /\ WorkerDone(p) /\ ~Returned(p, "Cancelled")
                   /\ ~Threw(p)) =>
                  /\ Len(CallsFor("GetAbsentCountries", p)) = 1
                  /\ IndexOf("GetAbsentCountries", p) > IndexOf("Return", p)
             /\ (Returned(p, "Cancelled") \/ Threw(p) \/ ~Kicked(p)) =>
                  ~Drained(p))
  /\ \A p \in 1..MaxApiCalls :
       (p \in DOMAIN proxies /\ Kicked(p))
         ~> (Drained(p) \/ Returned(p, "Cancelled") \/ Threw(p))

\* C13 happens: the worker is done with a request whose engine returned
\* RouteNotFound and whose fetcher was kicked and drained, and with a request
\* whose engine threw after the kick, which was not drained.
C13_Witness ==
  /\ \E p \in DOMAIN proxies :
       /\ Kicked(p) /\ WorkerDone(p) /\ Returned(p, "RouteNotFound")
       /\ Drained(p)
  /\ \E p \in DOMAIN proxies :
       Kicked(p) /\ WorkerDone(p) /\ Threw(p) /\ ~Drained(p)

\* The step is a call of the API's ClearState.
IsClearStateCall ==
  /\ apiCalls' = apiCalls + 1
  /\ engines' = engines
  /\ submitted' = submitted

\* C14: ClearState called while no engine is installed is a no-op with respect
\* to engines: the call leaves no clear-state request pending and makes no
\* engine call, and an engine installed later with SetRouter finds no
\* clear-state request pending.
C14_ClearStateWithoutEngineIsNoOp ==
  /\ [][(IsClearStateCall /\ m_router = NullPtr) =>
          (~m_clearState' /\ calls' = calls)]_vars
  /\ [][(m_router = NullPtr /\ m_router' # NullPtr) => ~m_clearState']_vars

\* C16: the worker is either sleeping on the condition variable or executing
\* one request: a pass of ThreadFunc's wait always blocks, exits, takes the
\* pending request or resets the clear-state flag (it never leaves the state
\* as it found it, to pass the wait again), and after a ClearState call the
\* flag is eventually reset, whether or not an engine is installed.
C16_ClearStateFlagIsEventuallyReset ==
  /\ [](\A w \in Workers :
          worker[w].pc = "wait" => ENABLED <<Atomic(ThreadFunc(w))>>_vars)
  /\ (m_clearState ~> ~m_clearState)

\* The calls made so far for the request a worker holds.
CallsOfWorker(w) ==
  SelectSeq(calls, LAMBDA c : c.delegate = worker[w].delegate)

\* C17: the engine of the last SetRouter call is the active one: m_router (and
\* the fetcher, if any) is that of the last call, a snapshot taken after the
\* call returned copies that engine, and the request is computed by the engine
\* its snapshot copied, never by an earlier one; each SetRouter call cancels
\* the delegate that was active and leaves none active.
C17_LastEngineIsActive ==
  /\ [](/\ m_router = engines
        /\ m_absentFetcher \in {NullPtr, engines}
        /\ \A w \in Workers :
             worker[w].delegate # NullPtr =>
               \A i \in DOMAIN CallsOfWorker(w) :
                 CallsOfWorker(w)[i].engine = worker[w].router)
  /\ [][\A w \in Workers :
          (worker[w].pc = "calculate" /\ worker'[w].pc = "try") =>
            /\ worker'[w].router = engines
            /\ worker'[w].absentFetcher = m_absentFetcher]_vars
  /\ [][engines' # engines =>
          /\ engines' = engines + 1
          /\ m_router' = engines'
          /\ m_delegate' = NullPtr
          /\ m_delegate # NullPtr => proxies'[m_delegate].cancelled]_vars

\* C17 happens: after two SetRouter calls a request was computed, by the
\* second engine.
C17_Witness ==
  /\ engines = 2
  /\ Len(Executed) = 1
  /\ Executed[1].engine = 2
  /\ \E code \in EngineResults : Returned(Executed[1].delegate, code)

\* The proxies whose cancellation flag is not set.
NotCancelled == { p \in DOMAIN proxies : ~proxies[p].cancelled }

\* C18: at most one delegate proxy is not cancelled, and it is the one held
\* in m_delegate (the proxy of the latest submission): every proxy that is no
\* longer the active delegate has its cancellation flag set, also when the
\* worker or a queued GUI task still holds it.
C18_OnlyTheActiveDelegateIsNotCancelled ==
  /\ m_delegate \in {NullPtr} \cup DOMAIN proxies
  /\ Cardinality(NotCancelled) <= 1
  /\ \A p \in NotCancelled : m_delegate = p
  /\ m_delegate # NullPtr =>
       /\ m_delegate \in NotCancelled
       /\ m_delegate = Len(proxies)

\* C18 happens: the worker computes the request of a proxy and a GUI task of
\* that proxy is queued, while a later submission has replaced it: the older
\* proxy is cancelled and the active one is not.
C18_Witness ==
  /\ Len(proxies) = 2
  /\ m_delegate = 2
  /\ proxies[1].cancelled
  /\ ~proxies[2].cancelled
  /\ \E w \in Workers : worker[w].delegate = 1 /\ worker[w].pc = "engine"
  /\ \E i \in DOMAIN guiQueue : guiQueue[i].delegate = 1

\* The request of proxy p is pending with an engine installed: CalculateRoute
\* has returned for it and no call has been made since.
PendingWithEngine(p) ==
  m_delegate = p /\ m_hasRequest /\ m_router # NullPtr

\* The worker has taken the request of proxy p, started the engine for it and
\* posted a terminal task for it.
Served(p) ==
  /\ p \in DOMAIN proxies
  /\ CallsFor("CalculateRoute", p) # <<>>
  /\ TerminalsPosted(p) # <<>>

\* A later CalculateRoute, SetRouter, ClearState or the destructor was called.
Superseded(p) == p \in DOMAIN proxies /\ proxies[p].cancelled

\* C20: no wake-up is lost: a request submitted while an engine is installed
\* is, unless a later call of the API supersedes it, eventually taken by the
\* worker, which starts the engine for it and posts a terminal task for it,
\* whether the worker was blocked or busy when it arrived; and the snapshot
\* that takes the request clears m_hasRequest.
C20_NoLostWakeup ==
  /\ \A p \in 1..MaxApiCalls :
       PendingWithEngine(p) ~> (Served(p) \/ Superseded(p))
  /\ [][\A w \in Workers :
          (worker[w].pc = "calculate" /\ worker'[w].pc # "calculate")
            => ~m_hasRequest']_vars

\* C20 happens: two requests were served, the second one submitted after the
\* worker had taken the first, and nothing is pending.
C20_Witness ==
  /\ Len(Executed) = 2
  /\ Served(1)
  /\ Served(2)
  /\ ~Superseded(2)
  /\ ~m_hasRequest
  /\ \A w \in Workers : worker[w].pc = "blocked"

\* The mutexes thread t holds or is blocked on, in the order it locked them.
LockedBy(t) ==
  mutexes[t].held
    \o (IF mutexes[t].wants # NoMutex THEN << mutexes[t].wants >> ELSE <<>>)

\* C15 as stated: the body of a task run on the GUI thread locks no mutex.
C15_TaskBodyLocksNoMutex ==
  mutexes[GuiThread].block = "task" => LockedBy(GuiThread) = <<>>

\* C15, amended: the body of a task run on the GUI thread never locks the
\* dispatcher's mutex; the on-ready, on-need-more-maps and on-remove-route
\* tasks whose callback is not empty lock the mutex of their own proxy, and
\* only that one, to test the cancellation flag; the progress and the
\* statistics tasks lock no mutex.
C15_TaskBodyLocksOnlyItsProxy ==
  /\ mutexes[GuiThread].block = "task" =>
       /\ guiQueue # <<>>
       /\ Head(guiQueue).kind \in TerminalKinds
       /\ Head(guiQueue).kind \in proxies[Head(guiQueue).delegate].callbacks
       /\ LockedBy(GuiThread) = << ProxyGuard(Head(guiQueue).delegate) >>
  /\ mutexes[GuiThread].block # "api" =>
       \A i \in DOMAIN LockedBy(GuiThread) :
         LockedBy(GuiThread)[i] # DispatcherGuard

\* C15 happens: the GUI thread holds the mutex of the proxy whose on-ready
\* task it runs, and a statistics task has run before it.
C15_Witness ==
  /\ mutexes[GuiThread].block = "task"
  /\ guiQueue # <<>>
  /\ Head(guiQueue).kind = "onReady"
  /\ mutexes[GuiThread].held = << ProxyGuard(Head(guiQueue).delegate) >>
  /\ \E i \in DOMAIN guiLog : guiLog[i].task.kind = "statistics"

\* A set of threads each blocked on a mutex that a thread of the set holds.
Deadlocked(S) ==
  /\ S # {}
  /\ \A t \in S :
       /\ mutexes[t].wants # NoMutex
       /\ Holder(mutexes[t].wants) \cap S # {}

\* C19: a proxy's mutex is a leaf and there is no deadlock: a thread that
\* holds a proxy's mutex locks nothing more (so the dispatcher's mutex is never
\* locked while a proxy's is held), no mutex is held by two threads, and no
\* set of threads, the GUI thread and the worker in particular, is ever
\* blocked each on a mutex that another of them holds.
C19_ProxyMutexIsLeafAndNoDeadlock ==
  /\ \A t \in Threads :
       \A i \in DOMAIN LockedBy(t) :
         LockedBy(t)[i].of = "RouterDelegateProxy" => i = Len(LockedBy(t))
  /\ \A t \in Threads :
       \A i \in DOMAIN mutexes[t].held : Holder(mutexes[t].held[i]) = {t}
  /\ \A S \in SUBSET Threads : ~Deadlocked(S)

\* C19 happens: the GUI thread, in an API call, holds the dispatcher's mutex
\* and is blocked in Cancel on the mutex of the active proxy, which the worker
\* holds in OnProgress.
C19_Witness ==
  /\ mutexes[GuiThread].held = << DispatcherGuard >>
  /\ mutexes[GuiThread].wants = ProxyGuard(m_delegate)
  /\ \E w \in Workers :
       /\ mutexes[w].block = "OnProgress"
       /\ mutexes[w].held = << ProxyGuard(m_delegate) >>

====
